---- MODULE Spec2Model ----
(***************************************************************************)
(* Model of the bech32 / codex32 checksum playground:                      *)
(*   base32.rs      GF(32) elements (u5), base32 strings (u5String)        *)
(*   checksum32.rs  the registry of codes, polymod, checksum, validate     *)
(*   main.rs        real_main, the dispatcher of the actions               *)
(*                                                                         *)
(* A Rust string is a sequence of one-character strings; bytes() is ord.   *)
(* A u5 is the u8 it wraps.  A Result is a record with the field ok.       *)
(***************************************************************************)
EXTENDS Naturals, Sequences, FiniteSets

\* ------------------------------------------------------------------------
\* Bounds of the model
\* ------------------------------------------------------------------------
MaxLen == 2          \* longest enumerated input of real_main
MaxStrLen == 2       \* longest enumerated base32 string of the library calls
MaxHrpStrLen == 4    \* longest enumerated string of a lone from_hrpstring call
MaxRegSteps == 1     \* longest enumerated input of a lone polymod call

\* ------------------------------------------------------------------------
\* u8 arithmetic
\* ------------------------------------------------------------------------
Bit(x, i) == (x \div (2 ^ i)) % 2

\* x ^ y of two u8
Xor(x, y) ==
    ((Bit(x, 0) + Bit(y, 0)) % 2)
  + ((Bit(x, 1) + Bit(y, 1)) % 2) * 2
  + ((Bit(x, 2) + Bit(y, 2)) % 2) * 4
  + ((Bit(x, 3) + Bit(y, 3)) % 2) * 8
  + ((Bit(x, 4) + Bit(y, 4)) % 2) * 16
  + ((Bit(x, 5) + Bit(y, 5)) % 2) * 32
  + ((Bit(x, 6) + Bit(y, 6)) % 2) * 64
  + ((Bit(x, 7) + Bit(y, 7)) % 2) * 128

\* x & y of two u8
And(x, y) ==
    (Bit(x, 0) * Bit(y, 0))
  + (Bit(x, 1) * Bit(y, 1)) * 2
  + (Bit(x, 2) * Bit(y, 2)) * 4
  + (Bit(x, 3) * Bit(y, 3)) * 8
  + (Bit(x, 4) * Bit(y, 4)) * 16
  + (Bit(x, 5) * Bit(y, 5)) * 32
  + (Bit(x, 6) * Bit(y, 6)) * 64
  + (Bit(x, 7) * Bit(y, 7)) * 128

\* x << 1 of a u8: the bit shifted out of the byte is lost
Shl1(x) == (x * 2) % 256

\* x >> 5 of a u8
Shr5(x) == x \div 32

U8 == 0 .. 255
U5 == 0 .. 31

\* ------------------------------------------------------------------------
\* base32.rs: u5
\* ------------------------------------------------------------------------
CHARSET ==
  << "q", "p", "z", "r", "y", "9", "x", "8", "g", "f", "2", "t", "v", "d", "w", "0",
     "s", "3", "j", "n", "5", "4", "k", "h", "c", "e", "6", "m", "u", "a", "7", "l" >>

Alphabet == { CHARSET[i] : i \in 1 .. 32 }

\* u5::mul_alpha without the reduction by x^5 + x^3 + 1
mul_alpha_unreduced(x) == Shl1(x)

\* u5::mul_alpha with 0x21 for 0x29: a reduction by x^5 + 1
mul_alpha_wrong_poly(x) ==
    LET y == Shl1(x)
    IN  IF And(y, 32) = 32 THEN Xor(y, 33) ELSE y

\* u5::mul_alpha
mul_alpha(x) ==
    LET y == Shl1(x)
    IN  IF And(y, 32) = 32 THEN Xor(y, 41) ELSE y

Ok(v) == [ok |-> TRUE, val |-> v]
Err(c) == [ok |-> FALSE, err |-> c]

\* u5::from_char: the message of the error names the character
from_char(c) ==
    CASE c = "q" -> Ok(0)
      [] c = "p" -> Ok(1)
      [] c = "z" -> Ok(2)
      [] c = "r" -> Ok(3)
      [] c = "y" -> Ok(4)
      [] c = "9" -> Ok(5)
      [] c = "x" -> Ok(6)
      [] c = "8" -> Ok(7)
      [] c = "g" -> Ok(8)
      [] c = "f" -> Ok(9)
      [] c = "2" -> Ok(10)
      [] c = "t" -> Ok(11)
      [] c = "v" -> Ok(12)
      [] c = "d" -> Ok(13)
      [] c = "w" -> Ok(14)
      [] c = "0" -> Ok(15)
      [] c = "s" -> Ok(16)
      [] c = "3" -> Ok(17)
      [] c = "j" -> Ok(18)
      [] c = "n" -> Ok(19)
      [] c = "5" -> Ok(20)
      [] c = "4" -> Ok(21)
      [] c = "k" -> Ok(22)
      [] c = "h" -> Ok(23)
      [] c = "c" -> Ok(24)
      [] c = "e" -> Ok(25)
      [] c = "6" -> Ok(26)
      [] c = "m" -> Ok(27)
      [] c = "u" -> Ok(28)
      [] c = "a" -> Ok(29)
      [] c = "7" -> Ok(30)
      [] c = "l" -> Ok(31)
      [] OTHER -> Err(c)

\* Display for u5 that reads the character after the right one
Display_off_by_one(v) == CHARSET[((v + 1) % 32) + 1]

\* Display for u5: CHARSET[idx]
Display(v) == CHARSET[v + 1]

\* u5 + u5
Add(x, y) == Xor(x, y)

\* The values of (res, other) through u5 * u5: MulTrace(x, y)[i] is the pair
\* after the i-th bit of self has been looked at and other multiplied by alpha
\* (the fifth step leaves other alone).
MulStep(self, st, i) ==
    LET res == IF Bit(self, i) # 0 THEN Add(st.res, st.other) ELSE st.res
    IN  [res |-> res, other |-> IF i < 4 THEN mul_alpha(st.other) ELSE st.other]

MulTrace(self, other) ==
    LET s0 == [res |-> 0, other |-> other]
        s1 == MulStep(self, s0, 0)
        s2 == MulStep(self, s1, 1)
        s3 == MulStep(self, s2, 2)
        s4 == MulStep(self, s3, 3)
        s5 == MulStep(self, s4, 4)
    IN  << s1, s2, s3, s4, s5 >>

\* u5 * u5
Mul(self, other) == MulTrace(self, other)[5].res

\* The products of all pairs of field elements, computed once
MulTable == [x \in U5 |-> [y \in U5 |-> Mul(x, y)]]
AddTable == [x \in U5 |-> [y \in U5 |-> Add(x, y)]]

\* ------------------------------------------------------------------------
\* Rust strings: bytes() of the characters the model uses (ASCII)
\* ------------------------------------------------------------------------
Digits == << "0", "1", "2", "3", "4", "5", "6", "7", "8", "9" >>
Upper ==
  << "A", "B", "C", "D", "E", "F", "G", "H", "I", "J", "K", "L", "M",
     "N", "O", "P", "Q", "R", "S", "T", "U", "V", "W", "X", "Y", "Z" >>
Lower ==
  << "a", "b", "c", "d", "e", "f", "g", "h", "i", "j", "k", "l", "m",
     "n", "o", "p", "q", "r", "s", "t", "u", "v", "w", "x", "y", "z" >>

Chars ==
    { Digits[i] : i \in 1 .. 10 } \cup { Upper[i] : i \in 1 .. 26 }
        \cup { Lower[i] : i \in 1 .. 26 }

\* the byte of an ASCII character
ord(c) ==
    IF \E i \in 1 .. 10 : Digits[i] = c
    THEN 47 + (CHOOSE i \in 1 .. 10 : Digits[i] = c)
    ELSE IF \E i \in 1 .. 26 : Upper[i] = c
    THEN 64 + (CHOOSE i \in 1 .. 26 : Upper[i] = c)
    ELSE 96 + (CHOOSE i \in 1 .. 26 : Lower[i] = c)

\* ------------------------------------------------------------------------
\* base32.rs: u5String
\* ------------------------------------------------------------------------

\* <u5String as FromStr>::from_str on the characters lo .. hi of s: the elements
\* in order, or the error of the first bad character
RECURSIVE from_str_range(_, _, _)
from_str_range(s, lo, hi) ==
    IF lo > hi THEN Ok(<< >>)
    ELSE IF lo = hi
    THEN LET ch == from_char(s[lo])
         IN  IF ch.ok THEN Ok(<< ch.val >>) ELSE ch
    ELSE LET mid == (lo + hi) \div 2
             front == from_str_range(s, lo, mid)
         IN  IF ~front.ok THEN front
             ELSE LET back == from_str_range(s, mid + 1, hi)
                  IN  IF ~back.ok THEN back ELSE Ok(front.val \o back.val)

\* from_str that leaves out the characters from_char refuses
from_str_lossy(s) ==
    LET good == SelectSeq(s, LAMBDA c : from_char(c).ok)
    IN  Ok([i \in 1 .. Len(good) |-> from_char(good[i]).val])

\* <u5String as FromStr>::from_str
from_str(s) == from_str_range(s, 1, Len(s))

\* Display for u5String
to_string(v) == [i \in 1 .. Len(v) |-> CHARSET[v[i] + 1]]

\* the index of the first '1' among the characters lo .. hi of s, 0 when none
RECURSIVE find_one_range(_, _, _)
find_one_range(s, lo, hi) ==
    IF lo > hi THEN 0
    ELSE IF lo = hi THEN (IF s[lo] = "1" THEN lo ELSE 0)
    ELSE LET mid == (lo + hi) \div 2
             front == find_one_range(s, lo, mid)
         IN  IF front # 0 THEN front ELSE find_one_range(s, mid + 1, hi)

\* the index of the last '1' among the characters lo .. hi of s, 0 when none
RECURSIVE rfind_one_range(_, _, _)
rfind_one_range(s, lo, hi) ==
    IF lo > hi THEN 0
    ELSE IF lo = hi THEN (IF s[lo] = "1" THEN lo ELSE 0)
    ELSE LET mid == (lo + hi) \div 2
             back == rfind_one_range(s, mid + 1, hi)
         IN  IF back # 0 THEN back ELSE rfind_one_range(s, lo, mid)

\* a split at the first '1' of the string
find_one(s) == find_one_range(s, 1, Len(s))

\* str::rsplit_once('1'): the index of the last '1', 0 when there is none
rfind_one(s) == rfind_one_range(s, 1, Len(s))

\* the (hrp, real_string) of from_hrpstring
split_hrp(s) ==
    LET p == rfind_one(s)
    IN  IF p = 0 THEN [hrp |-> << >>, real_string |-> s]
        ELSE [hrp |-> SubSeq(s, 1, p - 1), real_string |-> SubSeq(s, p + 1, Len(s))]

\* the elements pushed for one HRP byte
hrp_high(ch) == Shr5(ch)
hrp_low(ch) == And(ch, 31)

\* the expansion of the HRP, given as bytes: the high parts, a zero, the low parts
expand_hrp(bytes) ==
    [i \in 1 .. Len(bytes) |-> hrp_high(bytes[i])]
        \o << 0 >>
        \o [i \in 1 .. Len(bytes) |-> hrp_low(bytes[i])]

\* u5String::from_hrpstring
from_hrpstring(s) ==
    LET sp == split_hrp(s)
        res == expand_hrp([i \in 1 .. Len(sp.hrp) |-> ord(sp.hrp[i])])
        data == from_str(sp.real_string)
    IN  IF data.ok THEN Ok(res \o data.val) ELSE data

\* is_all_zero that stops one element early
is_all_zero_but_last(v) == \A i \in 1 .. Len(v) - 1 : v[i] = 0

\* u5String::is_all_zero
is_all_zero(v) == \A i \in 1 .. Len(v) : v[i] = 0


\* ------------------------------------------------------------------------
\* checksum32.rs: the registry
\* ------------------------------------------------------------------------

\* Checksum::new; its assertions (ASCII, final 'p', lengths) hold of the three
\* entries of get_checksums, so it never panics
Checksum_new(modulus_str, residue_str) ==
    [modulus |-> from_str(modulus_str).val, residue |-> from_str(residue_str).val]

\* get_checksums
get_checksums ==
    [name \in {"bech32", "codex32", "long-codex32"} |->
        CASE name = "bech32" ->
               Checksum_new(<< "j", "a", "4", "5", "k", "a", "p" >>,
                            << "q", "q", "q", "q", "q", "p" >>)
          [] name = "codex32" ->
               Checksum_new(<< "s", "s", "c", "m", "l", "e", "e", "e", "q", "g", "3", "m", "e", "p" >>,
                            << "s", "e", "c", "r", "e", "t", "s", "h", "a", "r", "e", "3", "2" >>)
          [] name = "long-codex32" ->
               Checksum_new(<< "h", "y", "k", "9", "x", "4", "h", "x", "4", "e", "f", "6", "e", "2", "0", "p" >>,
                            << "s", "e", "c", "r", "e", "t", "s", "h", "a", "r", "e", "3", "2", "e", "x" >>)]

Names == DOMAIN get_checksums

\* products and sums of field elements through the tables
TabMul(x, y) == IF x \in U5 /\ y \in U5 THEN MulTable[x][y] ELSE Mul(x, y)
TabAdd(x, y) == IF x \in U5 /\ y \in U5 THEN AddTable[x][y] ELSE Add(x, y)

\* ------------------------------------------------------------------------
\* checksum32.rs: polymod
\* ------------------------------------------------------------------------

\* shift, reading the generator forward
shift_forward(checksum, result) ==
    LET k == Len(result)
        xn == result[1]
    IN  << >> \o [i \in 1 .. k |->
            TabAdd(IF i < k THEN result[i + 1] ELSE 0, TabMul(checksum.modulus[i], xn))]

\* shift: multiply the remainder by x and reduce x^n by the generator, which is
\* read backward and without its final coefficient (the result is made a tuple,
\* so that each register is computed once)
shift(checksum, result) ==
    LET k == Len(result)
        xn == result[1]
    IN  << >> \o [i \in 1 .. k |->
            TabAdd(IF i < k THEN result[i + 1] ELSE 0,
                   TabMul(checksum.modulus[Len(checksum.modulus) - i], xn))]

\* one turn of the loop of polymod: shift, then add the element
feed(checksum, ret, ch) ==
    LET r == shift(checksum, ret)
    IN  [r EXCEPT ![Len(r)] = TabAdd(r[Len(r)], ch)]

\* the register of polymod, from ret, once the elements lo .. hi of the input
\* are consumed in order (the test of half has TLC compute the first half
\* before it goes on to the second: a register is never empty)
RECURSIVE consume(_, _, _, _, _)
consume(checksum, input, ret, lo, hi) ==
    IF lo > hi THEN ret
    ELSE IF lo = hi THEN feed(checksum, ret, input[lo])
    ELSE LET mid == (lo + hi) \div 2
             half == consume(checksum, input, ret, lo, mid)
         IN  IF half = << >> THEN half ELSE consume(checksum, input, half, mid + 1, hi)

\* the register of polymod once the first n elements of the input are consumed;
\* it starts as the polynomial 1
register(checksum, input, n) ==
    consume(checksum, input,
            [i \in 1 .. Len(checksum.residue) |-> IF i = Len(checksum.residue) THEN 1 ELSE 0],
            1, n)

\* polymod that returns the register as the loop leaves it
polymod_no_target(checksum, input) == register(checksum, input, Len(input))

\* Checksum::polymod: the register after the whole input, plus the target residue
polymod(checksum, input) ==
    LET ret == register(checksum, input, Len(input))
    IN  [i \in 1 .. Len(ret) |-> TabAdd(ret[i], checksum.residue[i])]

\* ------------------------------------------------------------------------
\* checksum32.rs: checksum and validate_checksum
\* ------------------------------------------------------------------------
Returned(v) == [panic |-> FALSE, ret |-> v]
Panicked(e) == [panic |-> TRUE, msg |-> e]

\* checksum that takes the polymod of the input as it is, without the zeros
checksum_unpadded(cs, s) ==
    LET parsed == from_hrpstring(s)
    IN  IF ~parsed.ok THEN Panicked(parsed.err)
        ELSE Returned(s \o to_string(polymod(cs, parsed.val)))

\* checksum that puts a separator between the string and its checksum
checksum_separated(cs, s) ==
    LET parsed == from_hrpstring(s)
    IN  IF ~parsed.ok THEN Panicked(parsed.err)
        ELSE LET input == parsed.val \o [i \in 1 .. Len(cs.residue) |-> 0]
             IN  Returned(s \o << "1" >> \o to_string(polymod(cs, input)))

\* Checksum::checksum
checksum(cs, s) ==
    LET parsed == from_hrpstring(s)
    IN  IF ~parsed.ok THEN Panicked(parsed.err)
        ELSE LET input == parsed.val \o [i \in 1 .. Len(cs.residue) |-> 0]
             IN  Returned(s \o to_string(polymod(cs, input)))

\* validate_checksum that tests the register as the loop leaves it, the target
\* not added
validate_checksum_raw(cs, s) ==
    LET parsed == from_hrpstring(s)
    IN  IF ~parsed.ok THEN Panicked(parsed.err)
        ELSE Returned(is_all_zero(register(cs, parsed.val, Len(parsed.val))))

\* Checksum::validate_checksum
validate_checksum(cs, s) ==
    LET parsed == from_hrpstring(s)
    IN  IF ~parsed.ok THEN Panicked(parsed.err)
        ELSE Returned(is_all_zero(polymod(cs, parsed.val)))


\* ------------------------------------------------------------------------
\* main.rs: real_main
\* ------------------------------------------------------------------------
OK == << "O", "K" >>
BAD == << "B", "A", "D" >>
ERROR == << "E", "R", "R", "O", "R" >>

\* real_main for the actions sum and validate, for an unknown checksum and for an
\* unknown action (the diagnostic actions to_hrp_u5 and to_hrp_hex are left out)
real_main(action, name, str) ==
    IF name \notin DOMAIN get_checksums THEN Returned(ERROR)
    ELSE LET cs == get_checksums[name]
         IN  CASE action = "sum" -> checksum(cs, str)
               [] action = "validate" ->
                    LET v == validate_checksum(cs, str)
                    IN  IF v.panic THEN v
                        ELSE IF v.ret THEN Returned(OK) ELSE Returned(BAD)
               [] OTHER -> Panicked(action)

\* ------------------------------------------------------------------------
\* The strings of the tests of main.rs
\* ------------------------------------------------------------------------
Bech32SumInput ==
    << "b", "c", "1", "q", "a", "r", "0", "s", "r", "r", "r", "7", "x", "f", "k",
       "v", "y", "5", "l", "6", "4", "3", "l", "y", "d", "n", "w", "9", "r", "e",
       "5", "9", "g", "t", "z", "z" >>
Bech32SumOutput ==
    << "b", "c", "1", "q", "a", "r", "0", "s", "r", "r", "r", "7", "x", "f", "k",
       "v", "y", "5", "l", "6", "4", "3", "l", "y", "d", "n", "w", "9", "r", "e",
       "5", "9", "g", "t", "z", "z", "w", "f", "5", "m", "d", "q" >>
Bech32Valid ==
    << "b", "c", "1", "q", "w", "5", "0", "8", "d", "6", "q", "e", "j", "x", "t",
       "d", "g", "4", "y", "5", "r", "3", "z", "a", "r", "v", "a", "r", "y", "0",
       "c", "5", "x", "w", "7", "k", "v", "8", "f", "3", "t", "4" >>
Codex32SumInput ==
    << "m", "s", "1", "0", "t", "e", "s", "t", "s", "x", "x", "x", "x", "x", "x",
       "x", "x", "x", "x", "x", "x", "x", "x", "x", "x", "x", "x", "x", "x", "x",
       "x", "x", "x", "x", "x" >>
Codex32SumOutput ==
    << "m", "s", "1", "0", "t", "e", "s", "t", "s", "x", "x", "x", "x", "x", "x",
       "x", "x", "x", "x", "x", "x", "x", "x", "x", "x", "x", "x", "x", "x", "x",
       "x", "x", "x", "x", "x", "4", "n", "z", "v", "c", "a", "9", "c", "m", "c",
       "z", "l", "w" >>

\* the arguments of codex32_valid in test_codex32
Codex32Vectors ==
    { << "m", "s", "1", "0", "t", "e", "s", "t", "s", "x", "x", "x", "x", "x", "x",
         "x", "x", "x", "x", "x", "x", "x", "x", "x", "x", "x", "x", "x", "x", "x",
         "x", "x", "x", "x", "x", "4", "n", "z", "v", "c", "a", "9", "c", "m", "c",
         "z", "l", "w" >>,
      << "M", "S", "1", "2", "N", "A", "M", "E", "A", "3", "2", "0", "Z", "Y", "X",
         "W", "V", "U", "T", "S", "R", "Q", "P", "N", "M", "L", "K", "J", "H", "G",
         "F", "E", "D", "C", "A", "X", "R", "P", "P", "8", "7", "0", "H", "K", "K",
         "Q", "R", "M" >>,
      << "M", "S", "1", "2", "N", "A", "M", "E", "C", "A", "C", "D", "E", "F", "G",
         "H", "J", "K", "L", "M", "N", "P", "Q", "R", "S", "T", "U", "V", "W", "X",
         "Y", "Z", "0", "2", "3", "F", "T", "R", "2", "G", "D", "Z", "M", "P", "Y",
         "6", "P", "N" >>,
      << "M", "S", "1", "2", "N", "A", "M", "E", "D", "L", "L", "4", "F", "8", "J",
         "L", "H", "4", "E", "5", "V", "D", "V", "U", "L", "D", "L", "F", "X", "U",
         "2", "J", "H", "D", "N", "L", "S", "M", "9", "7", "X", "V", "E", "N", "R",
         "X", "E", "G" >>,
      << "M", "S", "1", "2", "N", "A", "M", "E", "S", "6", "X", "Q", "G", "U", "Z",
         "T", "T", "X", "K", "E", "Q", "N", "J", "S", "J", "Z", "V", "4", "J", "V",
         "3", "N", "Z", "5", "K", "3", "K", "W", "G", "S", "P", "H", "U", "H", "6",
         "E", "V", "W" >>,
      << "m", "s", "1", "3", "c", "a", "s", "h", "s", "l", "l", "h", "d", "m", "n",
         "9", "m", "4", "2", "v", "c", "s", "a", "m", "x", "2", "4", "z", "r", "x",
         "g", "s", "3", "q", "q", "j", "z", "q", "u", "d", "4", "m", "0", "d", "6",
         "n", "l", "n" >>,
      << "m", "s", "1", "3", "c", "a", "s", "h", "a", "3", "2", "0", "z", "y", "x",
         "w", "v", "u", "t", "s", "r", "q", "p", "n", "m", "l", "k", "j", "h", "g",
         "f", "e", "d", "c", "a", "2", "a", "8", "d", "0", "z", "e", "h", "n", "8",
         "a", "0", "t" >>,
      << "m", "s", "1", "3", "c", "a", "s", "h", "c", "a", "c", "d", "e", "f", "g",
         "h", "j", "k", "l", "m", "n", "p", "q", "r", "s", "t", "u", "v", "w", "x",
         "y", "z", "0", "2", "3", "9", "4", "9", "x", "q", "3", "5", "m", "y", "4",
         "8", "d", "r" >>,
      << "m", "s", "1", "3", "c", "a", "s", "h", "d", "0", "w", "s", "e", "d", "s",
         "t", "c", "d", "c", "t", "s", "6", "4", "c", "d", "7", "w", "v", "y", "4",
         "m", "9", "0", "l", "m", "2", "8", "w", "4", "f", "f", "u", "p", "q", "s",
         "7", "r", "m" >>,
      << "m", "s", "1", "3", "c", "a", "s", "h", "e", "e", "k", "g", "p", "e", "m",
         "x", "z", "s", "h", "c", "r", "m", "q", "h", "a", "y", "d", "l", "p", "6",
         "y", "h", "m", "s", "3", "w", "s", "7", "3", "2", "0", "x", "y", "x", "s",
         "a", "r", "9" >>,
      << "m", "s", "1", "3", "c", "a", "s", "h", "f", "8", "j", "h", "6", "s", "d",
         "r", "k", "p", "y", "r", "s", "p", "5", "u", "t", "9", "4", "p", "j", "8",
         "k", "t", "e", "h", "h", "w", "2", "h", "f", "v", "y", "r", "j", "4", "8",
         "7", "0", "4" >>,
      << "m", "s", "1", "3", "c", "a", "s", "h", "s", "l", "l", "h", "d", "m", "n",
         "9", "m", "4", "2", "v", "c", "s", "a", "m", "x", "2", "4", "z", "r", "x",
         "g", "s", "3", "q", "p", "t", "e", "3", "5", "d", "v", "z", "k", "j", "p",
         "t", "0", "r" >>,
      << "m", "s", "1", "3", "c", "a", "s", "h", "s", "l", "l", "h", "d", "m", "n",
         "9", "m", "4", "2", "v", "c", "s", "a", "m", "x", "2", "4", "z", "r", "x",
         "g", "s", "3", "q", "z", "f", "a", "t", "v", "d", "w", "q", "5", "6", "9",
         "2", "k", "6" >>,
      << "m", "s", "1", "3", "c", "a", "s", "h", "s", "l", "l", "h", "d", "m", "n",
         "9", "m", "4", "2", "v", "c", "s", "a", "m", "x", "2", "4", "z", "r", "x",
         "g", "s", "3", "q", "r", "s", "x", "6", "y", "d", "h", "e", "d", "9", "7",
         "j", "x", "2" >>,
      << "m", "s", "1", "0", "l", "e", "e", "t", "s", "l", "l", "h", "d", "m", "n",
         "9", "m", "4", "2", "v", "c", "s", "a", "m", "x", "2", "4", "z", "r", "x",
         "g", "s", "3", "q", "r", "l", "7", "a", "h", "w", "v", "h", "w", "4", "f",
         "n", "z", "r", "h", "v", "e", "2", "5", "g", "v", "e", "z", "z", "y", "q",
         "q", "t", "u", "m", "9", "p", "g", "v", "9", "9", "y", "c", "m", "a" >>,
      << "m", "s", "1", "0", "l", "e", "e", "t", "s", "l", "l", "h", "d", "m", "n",
         "9", "m", "4", "2", "v", "c", "s", "a", "m", "x", "2", "4", "z", "r", "x",
         "g", "s", "3", "q", "r", "l", "7", "a", "h", "w", "v", "h", "w", "4", "f",
         "n", "z", "r", "h", "v", "e", "2", "5", "g", "v", "e", "z", "z", "y", "q",
         "p", "j", "8", "2", "d", "p", "3", "4", "u", "6", "l", "q", "t", "d" >>,
      << "m", "s", "1", "0", "l", "e", "e", "t", "s", "l", "l", "h", "d", "m", "n",
         "9", "m", "4", "2", "v", "c", "s", "a", "m", "x", "2", "4", "z", "r", "x",
         "g", "s", "3", "q", "r", "l", "7", "a", "h", "w", "v", "h", "w", "4", "f",
         "n", "z", "r", "h", "v", "e", "2", "5", "g", "v", "e", "z", "z", "y", "q",
         "z", "s", "r", "s", "4", "p", "n", "h", "7", "j", "m", "p", "j", "5" >>,
      << "m", "s", "1", "0", "l", "e", "e", "t", "s", "l", "l", "h", "d", "m", "n",
         "9", "m", "4", "2", "v", "c", "s", "a", "m", "x", "2", "4", "z", "r", "x",
         "g", "s", "3", "q", "r", "l", "7", "a", "h", "w", "v", "h", "w", "4", "f",
         "n", "z", "r", "h", "v", "e", "2", "5", "g", "v", "e", "z", "z", "y", "q",
         "r", "f", "c", "p", "a", "p", "2", "w", "8", "d", "q", "e", "z", "y" >>,
      << "m", "s", "1", "0", "l", "e", "e", "t", "s", "l", "l", "h", "d", "m", "n",
         "9", "m", "4", "2", "v", "c", "s", "a", "m", "x", "2", "4", "z", "r", "x",
         "g", "s", "3", "q", "r", "l", "7", "a", "h", "w", "v", "h", "w", "4", "f",
         "n", "z", "r", "h", "v", "e", "2", "5", "g", "v", "e", "z", "z", "y", "q",
         "y", "5", "t", "d", "v", "p", "h", "n", "6", "z", "n", "r", "f", "0" >>,
      << "m", "s", "1", "0", "l", "e", "e", "t", "s", "l", "l", "h", "d", "m", "n",
         "9", "m", "4", "2", "v", "c", "s", "a", "m", "x", "2", "4", "z", "r", "x",
         "g", "s", "3", "q", "r", "l", "7", "a", "h", "w", "v", "h", "w", "4", "f",
         "n", "z", "r", "h", "v", "e", "2", "5", "g", "v", "e", "z", "z", "y", "q",
         "9", "d", "s", "u", "y", "p", "w", "2", "r", "a", "g", "m", "e", "l" >>,
      << "m", "s", "1", "0", "l", "e", "e", "t", "s", "l", "l", "h", "d", "m", "n",
         "9", "m", "4", "2", "v", "c", "s", "a", "m", "x", "2", "4", "z", "r", "x",
         "g", "s", "3", "q", "r", "l", "7", "a", "h", "w", "v", "h", "w", "4", "f",
         "n", "z", "r", "h", "v", "e", "2", "5", "g", "v", "e", "z", "z", "y", "q",
         "x", "0", "5", "x", "u", "p", "v", "g", "p", "4", "v", "6", "q", "x" >>,
      << "m", "s", "1", "0", "l", "e", "e", "t", "s", "l", "l", "h", "d", "m", "n",
         "9", "m", "4", "2", "v", "c", "s", "a", "m", "x", "2", "4", "z", "r", "x",
         "g", "s", "3", "q", "r", "l", "7", "a", "h", "w", "v", "h", "w", "4", "f",
         "n", "z", "r", "h", "v", "e", "2", "5", "g", "v", "e", "z", "z", "y", "q",
         "8", "k", "0", "h", "5", "p", "4", "3", "c", "2", "h", "z", "s", "k" >>,
      << "m", "s", "1", "0", "l", "e", "e", "t", "s", "l", "l", "h", "d", "m", "n",
         "9", "m", "4", "2", "v", "c", "s", "a", "m", "x", "2", "4", "z", "r", "x",
         "g", "s", "3", "q", "r", "l", "7", "a", "h", "w", "v", "h", "w", "4", "f",
         "n", "z", "r", "h", "v", "e", "2", "5", "g", "v", "e", "z", "z", "y", "q",
         "g", "u", "m", "7", "h", "p", "l", "m", "j", "t", "r", "8", "k", "s" >>,
      << "m", "s", "1", "0", "l", "e", "e", "t", "s", "l", "l", "h", "d", "m", "n",
         "9", "m", "4", "2", "v", "c", "s", "a", "m", "x", "2", "4", "z", "r", "x",
         "g", "s", "3", "q", "r", "l", "7", "a", "h", "w", "v", "h", "w", "4", "f",
         "n", "z", "r", "h", "v", "e", "2", "5", "g", "v", "e", "z", "z", "y", "q",
         "f", "9", "q", "0", "l", "p", "x", "z", "t", "5", "c", "l", "x", "q" >>,
      << "m", "s", "1", "0", "l", "e", "e", "t", "s", "l", "l", "h", "d", "m", "n",
         "9", "m", "4", "2", "v", "c", "s", "a", "m", "x", "2", "4", "z", "r", "x",
         "g", "s", "3", "q", "r", "l", "7", "a", "h", "w", "v", "h", "w", "4", "f",
         "n", "z", "r", "h", "v", "e", "2", "5", "g", "v", "e", "z", "z", "y", "q",
         "2", "8", "y", "4", "8", "p", "y", "q", "f", "u", "u", "7", "l", "e" >>,
      << "m", "s", "1", "0", "l", "e", "e", "t", "s", "l", "l", "h", "d", "m", "n",
         "9", "m", "4", "2", "v", "c", "s", "a", "m", "x", "2", "4", "z", "r", "x",
         "g", "s", "3", "q", "r", "l", "7", "a", "h", "w", "v", "h", "w", "4", "f",
         "n", "z", "r", "h", "v", "e", "2", "5", "g", "v", "e", "z", "z", "y", "q",
         "t", "7", "l", "y", "0", "p", "a", "e", "s", "r", "8", "x", "0", "f" >>,
      << "m", "s", "1", "0", "l", "e", "e", "t", "s", "l", "l", "h", "d", "m", "n",
         "9", "m", "4", "2", "v", "c", "s", "a", "m", "x", "2", "4", "z", "r", "x",
         "g", "s", "3", "q", "r", "l", "7", "a", "h", "w", "v", "h", "w", "4", "f",
         "n", "z", "r", "h", "v", "e", "2", "5", "g", "v", "e", "z", "z", "y", "q",
         "v", "r", "v", "g", "7", "p", "q", "y", "d", "v", "5", "u", "y", "z" >>,
      << "m", "s", "1", "0", "l", "e", "e", "t", "s", "l", "l", "h", "d", "m", "n",
         "9", "m", "4", "2", "v", "c", "s", "a", "m", "x", "2", "4", "z", "r", "x",
         "g", "s", "3", "q", "r", "l", "7", "a", "h", "w", "v", "h", "w", "4", "f",
         "n", "z", "r", "h", "v", "e", "2", "5", "g", "v", "e", "z", "z", "y", "q",
         "d", "6", "h", "e", "k", "p", "e", "a", "5", "n", "0", "y", "5", "j" >>,
      << "m", "s", "1", "0", "l", "e", "e", "t", "s", "l", "l", "h", "d", "m", "n",
         "9", "m", "4", "2", "v", "c", "s", "a", "m", "x", "2", "4", "z", "r", "x",
         "g", "s", "3", "q", "r", "l", "7", "a", "h", "w", "v", "h", "w", "4", "f",
         "n", "z", "r", "h", "v", "e", "2", "5", "g", "v", "e", "z", "z", "y", "q",
         "w", "c", "n", "r", "w", "p", "m", "l", "k", "m", "t", "9", "d", "t" >>,
      << "m", "s", "1", "0", "l", "e", "e", "t", "s", "l", "l", "h", "d", "m", "n",
         "9", "m", "4", "2", "v", "c", "s", "a", "m", "x", "2", "4", "z", "r", "x",
         "g", "s", "3", "q", "r", "l", "7", "a", "h", "w", "v", "h", "w", "4", "f",
         "n", "z", "r", "h", "v", "e", "2", "5", "g", "v", "e", "z", "z", "y", "q",
         "0", "p", "g", "j", "x", "p", "z", "x", "0", "y", "s", "a", "a", "m" >> }

\* a codex32 input whose HRP is 92 characters long
LongHrpInput == [i \in 1 .. 92 |-> "q"] \o << "1", "q", "q" >>


\* ------------------------------------------------------------------------
\* State
\* ------------------------------------------------------------------------
VARIABLES
    action_s,      \* real_main: the action
    checksum_s,    \* real_main: the name of the code
    s,             \* real_main: the string
    pc,            \* "call": real_main is about to run; "done": it has ended
    out,           \* how real_main ended: Returned(string) or Panicked(token)
    src,           \* where s comes from: typed by the user, the output of a sum,
                   \* or that output with one character replaced
    fn,            \* a library call: the function called, "idle" between calls
    arg,           \* a library call: its arguments
    ret,           \* a library call: its result
    vals           \* a library call: every u5 value it produced on the way

vars == << action_s, checksum_s, s, pc, out, src, fn, arg, ret, vals >>
main_vars == << action_s, checksum_s, s, pc, out, src >>
lib_vars == << fn, arg, ret, vals >>

\* all strings over the characters S of length at most n
Strings(S, n) == UNION { [1 .. m -> S] : m \in 0 .. n }

None == [panic |-> FALSE, ret |-> << >>]
Typed == [kind |-> "typed"]

LibIdle ==
    /\ fn = "idle"
    /\ arg = << >>
    /\ ret = << >>
    /\ vals = << >>

\* ------------------------------------------------------------------------
\* The program: one run of real_main after another
\* ------------------------------------------------------------------------

\* characters of the enumerated inputs: one of the alphabet, the separator, and
\* one that is not in the alphabet
InputChars == { "l", "1", "b" }

\* the invocations of the model: every short string under every action and code
\* name (one of each unknown), and the invocations of the tests
Invocations ==
    ({"sum", "validate", "frob"} \X (Names \cup {"bech32m"}) \X Strings(InputChars, MaxLen))
    \cup { << "sum", "bech32", Bech32SumInput >>,
           << "validate", "bech32", Bech32Valid >>,
           << "sum", "codex32", Codex32SumInput >> }
    \cup { << "validate", "codex32", v >> : v \in Codex32Vectors }

Invoked(invs) ==
    /\ \E inv \in invs :
          /\ action_s = inv[1]
          /\ checksum_s = inv[2]
          /\ s = inv[3]
    /\ pc = "call"
    /\ out = None
    /\ src = Typed
    /\ LibIdle

Init == Invoked(Invocations)

\* the same, and a sum under codex32 of a string with a long HRP
LongInit == Invoked(Invocations \cup { << "sum", "codex32", LongHrpInput >> })

\* real_main runs to its end
Run ==
    /\ pc = "call"
    /\ out' = real_main(action_s, checksum_s, s)
    /\ pc' = "done"
    /\ UNCHANGED << action_s, checksum_s, s, src, lib_vars >>

SumReturned ==
    /\ pc = "done"
    /\ action_s = "sum"
    /\ checksum_s \in Names
    /\ ~out.panic

\* the output of a sum is given to validate under the same code
ValidateOutput ==
    /\ SumReturned
    /\ action_s' = "validate"
    /\ s' = out.ret
    /\ src' = [kind |-> "sum", of |-> s]
    /\ pc' = "call"
    /\ out' = None
    /\ UNCHANGED << checksum_s, lib_vars >>

\* the output of a sum, with the character at one position replaced by another
\* character of the alphabet, is given to validate under the same code
Tamper ==
    /\ SumReturned
    /\ \E pos \in 1 .. Len(out.ret) : \E c \in Alphabet \ { out.ret[pos] } :
          /\ s' = [out.ret EXCEPT ![pos] = c]
          /\ src' = [kind |-> "tamper", of |-> s, sum |-> out.ret, pos |-> pos]
    /\ action_s' = "validate"
    /\ pc' = "call"
    /\ out' = None
    /\ UNCHANGED << checksum_s, lib_vars >>

Next == Run \/ ValidateOutput \/ Tamper

Spec == Init /\ [][Next]_vars

LongSpec == LongInit /\ [][Next]_vars


\* ------------------------------------------------------------------------
\* The library: one call of a function of base32.rs or checksum32.rs at a time
\* ------------------------------------------------------------------------

\* the coefficient lists of the tests get_mod_string_*
GenBech32 == << 18, 29, 21, 20, 22, 29, 1 >>
GenCodex32 == << 16, 16, 24, 27, 31, 25, 25, 25, 0, 8, 17, 27, 25, 1 >>
GenLongCodex32 == << 23, 4, 22, 5, 6, 21, 23, 6, 21, 25, 9, 26, 25, 10, 15, 1 >>

\* characters of the strings given to from_hrpstring alone: the separator, two of
\* the alphabet, an upper-case letter and a lower-case one outside the alphabet
HrpStrChars == { "1", "a", "q", "B", "b" }

\* the register of polymod, and every u5 it has held, once the elements lo .. hi
\* of the input are consumed from the state st: the register after each shift
\* and after each addition of an element
RECURSIVE consume_trace(_, _, _, _, _)
consume_trace(cs, input, st, lo, hi) ==
    IF lo > hi THEN st
    ELSE IF lo = hi
    THEN LET shifted == shift(cs, st.ret)
             fed == feed(cs, st.ret, input[lo])
         IN  [ret |-> fed, seen |-> st.seen \o shifted \o fed]
    ELSE LET mid == (lo + hi) \div 2
             half == consume_trace(cs, input, st, lo, mid)
         IN  IF half.ret = << >> THEN half ELSE consume_trace(cs, input, half, mid + 1, hi)

\* every u5 that polymod holds in its register on the way: at the start, after
\* each shift, after each addition of an element, and after the addition of the
\* target
polymod_trace(cs, input) ==
    LET start == register(cs, input, 0)
    IN  consume_trace(cs, input, [ret |-> start, seen |-> start], 1, Len(input)).seen
            \o polymod(cs, input)

\* the inputs of the lone polymod calls: every short sequence of elements, and
\* the expansions of the strings of the tests
PolymodInputs ==
    Strings(U5, MaxRegSteps)
        \cup { from_hrpstring(v).val :
                  v \in { Bech32SumInput, Bech32SumOutput, Bech32Valid,
                          Codex32SumInput, Codex32SumOutput } }

\* every u5 that x * y holds in res and in other on the way
mul_values(x, y) ==
    LET tr == MulTrace(x, y)
    IN  [i \in 1 .. 10 |-> IF i <= 5 THEN tr[i].res ELSE tr[i - 5].other]

MainIdle ==
    /\ action_s = "none"
    /\ checksum_s = "none"
    /\ s = << >>
    /\ pc = "done"
    /\ out = None
    /\ src = Typed

LibInit == MainIdle /\ LibIdle

CallFromChar ==
    /\ fn = "idle"
    /\ \E c \in Chars :
          /\ fn' = "from_char"
          /\ arg' = << c >>
          /\ ret' = from_char(c)
          /\ vals' = IF from_char(c).ok THEN << from_char(c).val >> ELSE << >>
    /\ UNCHANGED main_vars

CallDisplay ==
    /\ fn = "idle"
    /\ \E v \in U5 :
          /\ fn' = "display"
          /\ arg' = << v >>
          /\ ret' = Display(v)
          /\ vals' = << v >>
    /\ UNCHANGED main_vars

CallAdd ==
    /\ fn = "idle"
    /\ \E x \in U5 : \E y \in U5 :
          /\ fn' = "add"
          /\ arg' = << x, y >>
          /\ ret' = Add(x, y)
          /\ vals' = << Add(x, y) >>
    /\ UNCHANGED main_vars

CallMulAlpha ==
    /\ fn = "idle"
    /\ \E x \in U5 :
          /\ fn' = "mul_alpha"
          /\ arg' = << x >>
          /\ ret' = mul_alpha(x)
          /\ vals' = << mul_alpha(x) >>
    /\ UNCHANGED main_vars

CallMul ==
    /\ fn = "idle"
    /\ \E x \in U5 : \E y \in U5 :
          /\ fn' = "mul"
          /\ arg' = << x, y >>
          /\ ret' = Mul(x, y)
          /\ vals' = mul_values(x, y)
    /\ UNCHANGED main_vars

CallFromStr ==
    /\ fn = "idle"
    /\ \E str \in Strings(Alphabet \cup {"b"}, MaxStrLen) :
          /\ fn' = "from_str"
          /\ arg' = << str >>
          /\ ret' = from_str(str)
          /\ vals' = IF from_str(str).ok THEN from_str(str).val ELSE << >>
    /\ UNCHANGED main_vars

CallToString ==
    /\ fn = "idle"
    /\ \E v \in Strings(U5, MaxStrLen) \cup { GenBech32, GenCodex32, GenLongCodex32 } :
          /\ fn' = "to_string"
          /\ arg' = << v >>
          /\ ret' = to_string(v)
          /\ vals' = v
    /\ UNCHANGED main_vars

CallFromHrpstring ==
    /\ fn = "idle"
    /\ \E str \in Strings(HrpStrChars, MaxHrpStrLen) \cup { Codex32SumOutput } :
          /\ fn' = "from_hrpstring"
          /\ arg' = << str >>
          /\ ret' = from_hrpstring(str)
          /\ vals' = IF from_hrpstring(str).ok THEN from_hrpstring(str).val ELSE << >>
    /\ UNCHANGED main_vars

\* the elements from_hrpstring pushes for an HRP of one byte, whatever the byte
CallExpandHrp ==
    /\ fn = "idle"
    /\ \E ch \in U8 :
          /\ fn' = "expand_hrp"
          /\ arg' = << ch >>
          /\ ret' = expand_hrp(<< ch >>)
          /\ vals' = expand_hrp(<< ch >>)
    /\ UNCHANGED main_vars

CallPolymod ==
    /\ fn = "idle"
    /\ \E name \in Names : \E input \in PolymodInputs :
          /\ fn' = "polymod"
          /\ arg' = << name, input >>
          /\ ret' = polymod(get_checksums[name], input)
          /\ vals' = polymod_trace(get_checksums[name], input)
    /\ UNCHANGED main_vars

Return ==
    /\ fn # "idle"
    /\ fn' = "idle"
    /\ arg' = << >>
    /\ ret' = << >>
    /\ vals' = << >>
    /\ UNCHANGED main_vars

LibNext ==
    \/ CallFromChar
    \/ CallDisplay
    \/ CallAdd
    \/ CallMulAlpha
    \/ CallMul
    \/ CallFromStr
    \/ CallToString
    \/ CallFromHrpstring
    \/ CallExpandHrp
    \/ CallPolymod
    \/ Return

LibSpec == LibInit /\ [][LibNext]_vars


\* ========================================================================
\* Claims about the program (specification Spec)
\* ========================================================================

\* the positions of str after its last '1': the DATA part
DataPositions(str) ==
    LET ones == { j \in 1 .. Len(str) : str[j] = "1" }
    IN  { i \in 1 .. Len(str) : \A j \in ones : j < i }

\* the DATA part of str holds a character outside the alphabet
BadData(str) == \E i \in DataPositions(str) : str[i] \notin Alphabet

\* the first character of the DATA part of str that is outside the alphabet
FirstBadData(str) ==
    LET bad == { i \in DataPositions(str) : str[i] \notin Alphabet }
    IN  str[CHOOSE i \in bad : \A j \in bad : i <= j]

\* alphabet characters and exactly one '1'
OneSeparator(str) ==
    /\ \A i \in 1 .. Len(str) : str[i] \in Alphabet \cup {"1"}
    /\ Cardinality({ i \in 1 .. Len(str) : str[i] = "1" }) = 1

\* C1: round trip. When validate has run on the output of a sum, under the same
\* registered code, of an input made of alphabet characters and exactly one '1',
\* it has returned true: real_main prints OK.
C1_RoundTrip ==
    (pc = "done" /\ src.kind = "sum" /\ OneSeparator(src.of))
        => out = Returned(OK)

C1_Witness ==
    /\ pc = "done"
    /\ src.kind = "sum"
    /\ OneSeparator(src.of)
    /\ src.of = << "l", "1" >>
    /\ checksum_s = "long-codex32"
    /\ out = Returned(OK)

C3_PublishedVectors ==
    pc = "done" =>
        /\ (action_s = "sum" /\ checksum_s = "bech32" /\ s = Bech32SumInput)
              => out = Returned(Bech32SumOutput)
        /\ (action_s = "sum" /\ checksum_s = "codex32" /\ s = Codex32SumInput)
              => out = Returned(Codex32SumOutput)
        /\ (action_s = "validate" /\ checksum_s = "bech32" /\ s = Bech32Valid)
              => out = Returned(OK)
        /\ (action_s = "validate" /\ checksum_s = "codex32" /\ s = Codex32SumOutput)
              => out = Returned(OK)

C3_Witness ==
    /\ pc = "done"
    /\ action_s = "sum"
    /\ checksum_s = "codex32"
    /\ s = Codex32SumInput
    /\ out = Returned(Codex32SumOutput)

\* C4 as stated: validate under codex32 returns OK for every vector of
\* test_codex32, the upper-case ones included.
C4_VectorsValidate ==
    (pc = "done" /\ src.kind = "typed" /\ action_s = "validate"
        /\ checksum_s = "codex32" /\ s \in Codex32Vectors)
        => out = Returned(OK)

\* C5: validate_checksum returns true exactly when the register of polymod, as
\* the loop leaves it for the HRP expansion of s (the target not yet added), is
\* element by element the target residue of the code.
C5_ValidateIffTarget ==
    (pc = "done" /\ action_s = "validate" /\ checksum_s \in Names /\ ~BadData(s))
        => LET cs == get_checksums[checksum_s]
               input == from_hrpstring(s).val
               raw == register(cs, input, Len(input))
               same == \A i \in 1 .. Len(cs.residue) : raw[i] = cs.residue[i]
           IN  /\ out \in { Returned(OK), Returned(BAD) }
               /\ (out = Returned(OK)) <=> same

C5_Witness ==
    /\ pc = "done"
    /\ action_s = "validate"
    /\ checksum_s = "bech32"
    /\ s = Bech32Valid
    /\ out = Returned(OK)
    /\ register(get_checksums["bech32"], from_hrpstring(s).val,
                Len(from_hrpstring(s).val)) = << 0, 0, 0, 0, 0, 1 >>

\* C9 as stated: a sum or a validate under a registered code of a string whose
\* DATA part holds a character outside the alphabet does not panic.
C9_NeverAborts ==
    (pc = "done" /\ action_s \in {"sum", "validate"} /\ checksum_s \in Names
        /\ BadData(s))
        => ~out.panic

\* C9 amended: for such a string from_hrpstring returns an Err that names the
\* first offending character, and sum and validate under a registered code end
\* in a panic whose message names that character; under an unknown code name
\* real_main returns the sentinel ERROR and does not panic.
C9_ParseErrorPanics ==
    (pc = "done" /\ action_s \in {"sum", "validate"} /\ BadData(s))
        => /\ from_hrpstring(s) = Err(FirstBadData(s))
           /\ checksum_s \in Names => out = Panicked(FirstBadData(s))
           /\ checksum_s \notin Names => out = Returned(ERROR)

C9_Witness ==
    /\ pc = "done"
    /\ action_s = "validate"
    /\ checksum_s = "codex32"
    /\ s = << "1", "b" >>
    /\ out = Panicked("b")


\* ========================================================================
\* Claims about the library (specification LibSpec)
\* ========================================================================

\* C6: the u5 values with + and * are a field. After a + b: the sum is a u5,
\* equal to b + a, a + a = 0, and (a + b) + c = a + (b + c) for every c. After
\* a * b: the product is a u5, equal to b * a, a times the value of 'p' is a,
\* (a * b) * c = a * (b * c) and a * (b + c) = a * b + a * c for every c, and a
\* nonzero a has an inverse.
C6_FieldLaws ==
    /\ fn = "add" =>
          LET a == arg[1]
              b == arg[2]
          IN  /\ ret \in U5
              /\ ret = Add(b, a)
              /\ Add(a, a) = 0
              /\ \A c \in U5 : Add(ret, c) = Add(a, Add(b, c))
    /\ fn = "mul" =>
          LET a == arg[1]
              b == arg[2]
          IN  /\ ret \in U5
              /\ ret = Mul(b, a)
              /\ from_char("p").ok /\ Mul(a, from_char("p").val) = a
              /\ b = 1 => ret = a
              /\ \A c \in U5 : Mul(ret, c) = Mul(a, Mul(b, c))
              /\ \A c \in U5 : Mul(a, Add(b, c)) = Add(ret, Mul(a, c))
              /\ a # 0 => \E x \in U5 \ {0} : Mul(a, x) = 1

C6_Witness ==
    /\ fn = "mul"
    /\ arg = << 31, 15 >>
    /\ ret = 1

\* C7: parsing and rendering are inverses. from_char accepts every character of
\* the alphabet and the rendering of its value is that character; from_char of
\* the rendering of a value is that value; from_str of a string over the
\* alphabet has the length of the string and renders to it; and the rendering
\* of a sequence of elements parses back to the sequence.
C7_ParseRenderInverse ==
    /\ fn = "from_char" =>
          /\ arg[1] \in Alphabet => ret.ok
          /\ ret.ok => Display(ret.val) = arg[1]
    /\ fn = "display" => from_char(ret) = Ok(arg[1])
    /\ (fn = "from_str" /\ \A i \in 1 .. Len(arg[1]) : arg[1][i] \in Alphabet) =>
          /\ ret.ok
          /\ Len(ret.val) = Len(arg[1])
          /\ to_string(ret.val) = arg[1]
    /\ fn = "to_string" =>
          /\ Len(ret) = Len(arg[1])
          /\ from_str(ret) = Ok(arg[1])

C7_Witness ==
    /\ fn = "to_string"
    /\ arg[1] = GenCodex32
    /\ ret = << "s", "s", "c", "m", "l", "e", "e", "e", "q", "g", "3", "m", "e", "p" >>
    /\ from_str(ret) = Ok(GenCodex32)

\* the expansion test_to_hrp_hex expects of to_hrp_u5
HrpU5Expected ==
    << 3, 3, 0, 13, 19, 15, 11, 25, 16, 11, 16,
       6, 6, 6, 6, 6, 6, 6, 6, 6, 6, 6, 6, 6, 6, 6, 6, 6, 6, 6, 6, 6, 6, 6, 6, 6, 6,
       21, 19, 2, 12, 24, 29, 5, 24, 27, 24, 2, 31, 14 >>

\* C8: from_hrpstring splits at the last '1' (none: the HRP is empty and the
\* string is the DATA). When the DATA is over the alphabet it returns the high
\* three bits of each HRP byte, a zero, the low five bits of each HRP byte and
\* the DATA characters as elements: 2 * |HRP| + 1 + |DATA| elements. The empty
\* string expands to [0].
C8_HrpExpansion ==
    fn = "from_hrpstring" =>
        LET str == arg[1]
            ones == { i \in 1 .. Len(str) : str[i] = "1" }
            p == IF ones = {} THEN 0 ELSE CHOOSE i \in ones : \A j \in ones : j <= i
            h == IF p = 0 THEN 0 ELSE p - 1
            d == Len(str) - p
        IN  /\ str = << >> => ret = Ok(<< 0 >>)
            /\ (\A j \in 1 .. d : str[p + j] \in Alphabet) =>
                  /\ ret.ok
                  /\ Len(ret.val) = 2 * h + 1 + d
                  /\ \A i \in 1 .. h : ret.val[i] = ord(str[i]) \div 32
                  /\ ret.val[h + 1] = 0
                  /\ \A i \in 1 .. h : ret.val[h + 1 + i] = ord(str[i]) % 32
                  /\ \A j \in 1 .. d : CHARSET[ret.val[2 * h + 1 + j] + 1] = str[p + j]

C8_Witness ==
    /\ fn = "from_hrpstring"
    /\ arg[1] = << "a", "1", "1", "q" >>
    /\ ret = Ok(<< 3, 1, 0, 1, 17, 0 >>)

\* C10: every u5 value an operation produces is below 32: the value of
\* from_char, of a + b and of mul_alpha, res and other at each step of a * b,
\* every element from_hrpstring pushes, whatever the HRP byte, and every element
\* of the register of polymod after each shift and each addition.
C10_RangeInvariant ==
    fn # "idle" => \A i \in 1 .. Len(vals) : vals[i] < 32

C10_Witness ==
    /\ fn = "mul"
    /\ arg = << 31, 31 >>
    /\ \E i \in 1 .. Len(vals) : vals[i] = 31
    /\ \A i \in 1 .. Len(vals) : vals[i] < 32


\* ========================================================================
\* Claims about the target residue and about the frame of checksum
\* (specification Spec)
\* ========================================================================

\* the register of polymod for the input, as the loop leaves it
RawResidue(cs, input) == register(cs, input, Len(input))

\* the register with the target residue of the code added element by element
WithTarget(cs, raw) == [i \in 1 .. Len(raw) |-> Add(raw[i], cs.residue[i])]

\* C11 as stated: validate_checksum does not add the target, and returns true
\* exactly when the register as the loop leaves it is all zeros.
C11_ValidateWithoutTarget ==
    (pc = "done" /\ action_s = "validate" /\ checksum_s \in Names /\ ~BadData(s))
        => LET cs == get_checksums[checksum_s]
               raw == RawResidue(cs, from_hrpstring(s).val)
           IN  (out = Returned(OK)) <=> is_all_zero(raw)

\* C11 amended: polymod adds the target residue for checksum and for
\* validate_checksum alike. sum returns s followed by the rendering of the
\* register of the zero-padded input with the target added, and validate returns
\* OK exactly when the register of its input with the target added is all zeros.
C11_TargetAddedForBoth ==
    (pc = "done" /\ checksum_s \in Names /\ ~BadData(s)) =>
        LET cs == get_checksums[checksum_s]
            input == from_hrpstring(s).val
            padded == input \o [i \in 1 .. Len(cs.residue) |-> 0]
        IN  /\ action_s = "sum" =>
                  out = Returned(s \o to_string(WithTarget(cs, RawResidue(cs, padded))))
            /\ action_s = "validate" =>
                  out = IF is_all_zero(WithTarget(cs, RawResidue(cs, input)))
                        THEN Returned(OK) ELSE Returned(BAD)

C11_Witness ==
    /\ pc = "done"
    /\ action_s = "validate"
    /\ checksum_s = "codex32"
    /\ s = Codex32SumOutput
    /\ out = Returned(OK)
    /\ RawResidue(get_checksums["codex32"], from_hrpstring(s).val)
          = get_checksums["codex32"].residue
    /\ ~is_all_zero(RawResidue(get_checksums["codex32"], from_hrpstring(s).val))

\* C12: checksum only appends and never moves the HRP split. When sum has run
\* under a registered code on a parseable s, with no '1', one or several, it
\* has returned s followed by as many characters as the residue has elements,
\* each of the alphabet and none '1'; the last '1' of the output is where the
\* last '1' of s is, and the expansion of the output is the expansion of s
\* followed by the elements of the appended characters.
C12_ChecksumOnlyAppends ==
    (pc = "done" /\ action_s = "sum" /\ checksum_s \in Names /\ ~BadData(s)) =>
        LET k == Len(get_checksums[checksum_s].residue)
            n == Len(s)
        IN  /\ ~out.panic
            /\ Len(out.ret) = n + k
            /\ SubSeq(out.ret, 1, n) = s
            /\ \A i \in n + 1 .. n + k : out.ret[i] \in Alphabet /\ out.ret[i] # "1"
            /\ rfind_one(out.ret) = rfind_one(s)
            /\ split_hrp(out.ret).hrp = split_hrp(s).hrp
            /\ from_hrpstring(out.ret)
                  = Ok(from_hrpstring(s).val \o from_str(SubSeq(out.ret, n + 1, n + k)).val)

C12_Witness ==
    /\ pc = "done"
    /\ action_s = "sum"
    /\ checksum_s = "long-codex32"
    /\ s = << "1", "1" >>
    /\ ~out.panic
    /\ Len(out.ret) = 17
    /\ rfind_one(out.ret) = 2

====
